---- MODULE Spec2Model ----
(***************************************************************************)
(* Model of the two solver scripts of Prep-A-Thon-2024:                    *)
(*   src/solver/signal-solver.py          (script = "signal")              *)
(*   src/solver/path-rerouting-solver.py  (script = "path")                *)
(* Python lists are modelled as functions over 0..n-1 (the source's        *)
(* indices), strings as sequences of one-character strings, and numpy      *)
(* float entries as exact rationals <<numerator, denominator>> in lowest   *)
(* terms (every value the scripts compute is a multiple of 1/2 and is      *)
(* exact in float64).                                                      *)
(***************************************************************************)
EXTENDS Integers, Sequences, FiniteSets, TLC

(* script: which of the two files runs; pc: the statement about to run;     *)
(* traffic_flows .. p: the arguments of qaoa_*_optimization;                *)
(* cost_hamiltonian, qaoa_circuit, layer, i: its locals, the circuit being  *)
(* the sequence of operations emitted so far; reads: the cost entries       *)
(* indexed so far; runs: the number of simulator.run calls; counts: the     *)
(* dict returned by get_counts; optimum, decoded: the locals of __main__.   *)
VARIABLES script, pc, traffic_flows, signal_timings, emergency_flags,
          start, end, p, cost_hamiltonian, qaoa_circuit, layer, i, reads,
          runs, counts, optimum, decoded

vars == <<script, pc, traffic_flows, signal_timings, emergency_flags,
          start, end, p, cost_hamiltonian, qaoa_circuit, layer, i, reads,
          runs, counts, optimum, decoded>>

(* ---------------------------- bounds ----------------------------------- *)
MaxN == 2

MaxFlow == 1

MaxTiming == 2

MaxP == 2

Shots == 3

MaxLen == 3

(* ------------------------ program constants ---------------------------- *)
emergency_penalty == 100

vehicle_speed == 40

MinutesPerHour == 60

Timing0 == 20

Timing1 == 30

Timing2 == 60

PiOver2 == "pi/2"

distances == [r \in 0..2 |->
                 CASE r = 0 -> [c \in 0..2 |-> CASE c = 0 -> 0 [] c = 1 -> 1 [] OTHER -> 2]
                   [] r = 1 -> [c \in 0..2 |-> CASE c = 0 -> 1 [] c = 1 -> 0 [] OTHER -> 1]
                   [] OTHER -> [c \in 0..2 |-> CASE c = 0 -> 2 [] c = 1 -> 1 [] OTHER -> 0]]

NumDistances == Cardinality(DOMAIN distances)

(* --------------------------- arithmetic -------------------------------- *)
RECURSIVE Gcd(_, _)
Gcd(a, b) == IF b = 0 THEN a ELSE Gcd(b, a % b)

Abs(a) == IF a < 0 THEN -a ELSE a

Rat(a, b) == LET g == Gcd(Abs(a), Abs(b)) IN <<a \div g, b \div g>>

RatOfInt(a) == <<a, 1>>

RatAdd(x, y) == Rat(x[1] * y[2] + y[1] * x[2], x[2] * y[2])

RatDiv(x, y) == Rat(x[1] * y[2], x[2] * y[1])

Zero == RatOfInt(0)

RECURSIVE Pow2(_)
Pow2(k) == IF k = 0 THEN 1 ELSE 2 * Pow2(k - 1)

LenOf(f) == Cardinality(DOMAIN f)

n == LenOf(traffic_flows)

(* np.zeros((2**n, 2**n)) *)
Zeros(m) == [r \in 0..(Pow2(m) - 1) |-> [c \in 0..(Pow2(m) - 1) |-> Zero]]

(* H[r][c] += v *)
AddAt(H, r, c, v) == [H EXCEPT ![r][c] = RatAdd(@, v)]

(* ------------------- signal-solver.py: cost matrix --------------------- *)
(* mutant: the waiting time adds instead of multiplying *)
waiting_time_sum(timings, flows, k) == timings[k] + flows[k]

waiting_time(timings, flows, k) == timings[k] * flows[k]

(* mutant: the emergency penalty is added whatever the flag *)
RECURSIVE CostLoop_unconditional_penalty(_, _, _, _, _)
CostLoop_unconditional_penalty(k, H, flows, timings, flags) ==
    IF k >= LenOf(flows) THEN H
    ELSE CostLoop_unconditional_penalty(
             k + 1,
             AddAt(AddAt(H, k, k, RatOfInt(timings[k] * flows[k])),
                   k, k, RatOfInt(emergency_penalty)),
             flows, timings, flags)

RECURSIVE CostLoop(_, _, _, _, _)
CostLoop(k, H, flows, timings, flags) ==
    IF k >= LenOf(flows) THEN H
    ELSE LET H1 == AddAt(H, k, k, RatOfInt(waiting_time(timings, flows, k)))
             H2 == IF flags[k] THEN AddAt(H1, k, k, RatOfInt(emergency_penalty))
                               ELSE H1
         IN CostLoop(k + 1, H2, flows, timings, flags)

create_cost_hamiltonian(flows, timings, flags) ==
    CostLoop(0, Zeros(LenOf(flows)), flows, timings, flags)

(* ---------------- path-rerouting-solver.py: cost matrix ---------------- *)
calculate_travel_time(distance, speed) ==
    LET speed_km_per_min == Rat(speed, MinutesPerHour)
    IN RatDiv(RatOfInt(distance), speed_km_per_min)

(* mutant: the travel time is written to column i of row j *)
RECURSIVE TravelLoop_transposed(_, _, _, _, _)
TravelLoop_transposed(j, H, k, s, m) ==
    IF j >= m THEN H
    ELSE TravelLoop_transposed(
             j + 1,
             IF j # s
             THEN AddAt(H, j, k, calculate_travel_time(distances[k][j], vehicle_speed))
             ELSE H,
             k, s, m)

RECURSIVE TravelLoop(_, _, _, _, _)
TravelLoop(j, H, k, s, m) ==
    IF j >= m THEN H
    ELSE TravelLoop(j + 1,
                    IF j # s
                    THEN AddAt(H, k, j, calculate_travel_time(distances[k][j], vehicle_speed))
                    ELSE H,
                    k, s, m)

(* mutant: the waiting time is added at every intersection, not only at start *)
RECURSIVE PathCostLoop_every_node(_, _, _, _, _, _, _)
PathCostLoop_every_node(k, H, s, e, flows, timings, flags) ==
    IF k >= LenOf(flows) THEN H
    ELSE LET H1 == AddAt(H, k, k, RatOfInt(timings[k] * flows[k]))
         IN PathCostLoop_every_node(
                k + 1,
                IF k = s THEN TravelLoop(0, H1, k, s, LenOf(flows)) ELSE H1,
                s, e, flows, timings, flags)

(* mutant: the start node gets the signal solver's emergency penalty *)
RECURSIVE PathCostLoop_penalty(_, _, _, _, _, _, _)
PathCostLoop_penalty(k, H, s, e, flows, timings, flags) ==
    IF k >= LenOf(flows) THEN H
    ELSE PathCostLoop_penalty(
             k + 1,
             IF k = s
             THEN LET H1 == AddAt(H, k, k, RatOfInt(timings[k] * flows[k]))
                      H2 == IF flags[k] THEN AddAt(H1, k, k, RatOfInt(emergency_penalty))
                                        ELSE H1
                  IN TravelLoop(0, H2, k, s, LenOf(flows))
             ELSE H,
             s, e, flows, timings, flags)

RECURSIVE PathCostLoop(_, _, _, _, _, _, _)
PathCostLoop(k, H, s, e, flows, timings, flags) ==
    IF k >= LenOf(flows) THEN H
    ELSE PathCostLoop(k + 1,
                      IF k = s
                      THEN TravelLoop(0,
                                      AddAt(H, k, k, RatOfInt(waiting_time(timings, flows, k))),
                                      k, s, LenOf(flows))
                      ELSE H,
                      s, e, flows, timings, flags)

create_path_cost_hamiltonian(s, e, flows, timings, flags) ==
    PathCostLoop(0, Zeros(LenOf(flows)), s, e, flows, timings, flags)

(* ------------------------- input domains ------------------------------- *)
Vectors(m, S) == [0..(m - 1) -> S]

SampleFlows(s) == IF s = "signal"
                  THEN [k \in 0..2 |-> CASE k = 0 -> 50 [] k = 1 -> 40 [] OTHER -> 10]
                  ELSE [k \in 0..2 |-> CASE k = 0 -> 1 [] OTHER -> 0]

SampleTimings == [k \in 0..2 |-> CASE k = 0 -> 30 [] k = 1 -> 60 [] OTHER -> 20]

SampleFlags == [k \in 0..2 |-> k = 1]

start_node == 0

end_node == 2

Fresh ==
    /\ pc = "create"
    /\ cost_hamiltonian = << >>
    /\ qaoa_circuit = << >>
    /\ layer = 0
    /\ i = 0
    /\ reads = {}
    /\ runs = 0
    /\ counts = << >>
    /\ optimum = << >>
    /\ decoded = << >>

Prefix(f, m) == [k \in 0..(m - 1) |-> f[k]]

(* the largest n the path script can take: distances is NumDistances wide *)
MaxPathN == IF MaxN > NumDistances THEN NumDistances ELSE MaxN

(* the compiled-in data of the two __main__ blocks *)
SampleInputs ==
    /\ script \in {"signal", "path"}
    /\ traffic_flows = SampleFlows(script)
    /\ signal_timings = SampleTimings
    /\ emergency_flags = SampleFlags
    /\ start = start_node
    /\ end = end_node

(* the same data cut down to its first m intersections *)
PrefixInputs ==
    /\ script \in {"signal", "path"}
    /\ \E m \in 1..MaxPathN :
          /\ traffic_flows = Prefix(SampleFlows(script), m)
          /\ signal_timings = Prefix(SampleTimings, m)
          /\ emergency_flags = Prefix(SampleFlags, m)
          /\ start = start_node
          /\ end = m - 1

(* arbitrary arguments of create_cost_hamiltonian and
   create_path_cost_hamiltonian, within the bounds *)
BroadInputs ==
    /\ script \in {"signal", "path"}
    /\ \E m \in 1..(IF script = "path" THEN MaxPathN ELSE MaxN) :
          /\ traffic_flows \in Vectors(m, 0..MaxFlow)
          /\ signal_timings \in Vectors(m, 1..MaxTiming)
          /\ emergency_flags \in Vectors(m, BOOLEAN)
          /\ IF script = "path"
             THEN start \in 0..m /\ end \in 0..(m - 1)
             ELSE start = start_node /\ end = end_node

(* arguments of the two qaoa_* functions: every flow and timing vector within
   the bounds; the path script's flags and destination, which no statement
   of it reads, are taken from the sample data *)
CircuitInputs ==
    /\ script \in {"signal", "path"}
    /\ \E m \in 1..(IF script = "path" THEN MaxPathN ELSE MaxN) :
          /\ traffic_flows \in Vectors(m, 0..MaxFlow)
          /\ signal_timings \in Vectors(m, 1..MaxTiming)
          /\ IF script = "path"
             THEN /\ emergency_flags = Prefix(SampleFlags, m)
                  /\ start \in 0..m
                  /\ end = m - 1
             ELSE /\ emergency_flags \in Vectors(m, BOOLEAN)
                  /\ start = start_node
                  /\ end = end_node

InitCost == Fresh /\ p = 1 /\ (SampleInputs \/ BroadInputs)

InitCircuit == Fresh /\ p \in 0..MaxP /\ (SampleInputs \/ CircuitInputs)

Init == Fresh /\ p \in 0..MaxP /\ (SampleInputs \/ PrefixInputs)

(* ------------------- qaoa_*_optimization, step by step ----------------- *)
Locals == <<script, traffic_flows, signal_timings, emergency_flags, start, end, p>>

Results == <<runs, counts, optimum, decoded>>

CreateCost ==
    /\ pc = "create"
    /\ script = "signal"
    /\ cost_hamiltonian' = create_cost_hamiltonian(traffic_flows, signal_timings, emergency_flags)
    /\ pc' = "h"
    /\ UNCHANGED <<Locals, qaoa_circuit, layer, i, reads, Results>>

CreatePathCost ==
    /\ pc = "create"
    /\ script = "path"
    /\ cost_hamiltonian' = create_path_cost_hamiltonian(start, end, traffic_flows,
                                                        signal_timings, emergency_flags)
    /\ pc' = "h"
    /\ UNCHANGED <<Locals, qaoa_circuit, layer, i, reads, Results>>

(* qaoa_circuit.h(range(n)) *)
HGates(m) == [q \in 1..m |-> [gate |-> "h", qubit |-> q - 1]]

(* where control goes after the body of `for i in range(n)` at (l, k) ended,
   or when a loop header is entered with these counters *)
LoopPc(l, k) == IF l < p /\ k < n THEN "rz" ELSE "measure"

Hadamard ==
    /\ pc = "h"
    /\ qaoa_circuit' = qaoa_circuit \o HGates(n)
    /\ layer' = 0
    /\ i' = 0
    /\ pc' = LoopPc(0, 0)
    /\ UNCHANGED <<Locals, cost_hamiltonian, reads, Results>>

(* mutant: the angle is read from row 0 *)
RzAngle_row0(H, k) == H[0][k]

(* qaoa_circuit.rz(cost_hamiltonian[i][i], i) *)
RzAngle(H, k) == H[k][k]

RzRead(k) == <<k, k>>

Rz ==
    /\ pc = "rz"
    /\ qaoa_circuit' = Append(qaoa_circuit,
                              [gate |-> "rz", angle |-> RzAngle(cost_hamiltonian, i), qubit |-> i])
    /\ reads' = reads \cup {RzRead(i)}
    /\ pc' = "rx"
    /\ UNCHANGED <<Locals, cost_hamiltonian, layer, i, Results>>

(* qaoa_circuit.rx(np.pi / 2, i), then the two loop headers *)
Rx ==
    /\ pc = "rx"
    /\ qaoa_circuit' = Append(qaoa_circuit, [gate |-> "rx", angle |-> PiOver2, qubit |-> i])
    /\ IF i + 1 < n
       THEN /\ i' = i + 1
            /\ layer' = layer
            /\ pc' = "rz"
       ELSE /\ i' = 0
            /\ layer' = layer + 1
            /\ pc' = LoopPc(layer + 1, 0)
    /\ UNCHANGED <<Locals, cost_hamiltonian, reads, Results>>

(* qaoa_circuit.measure_all() *)
MeasureGates(m) == [q \in 1..m |-> [gate |-> "measure", qubit |-> q - 1]]

MeasureAll ==
    /\ pc = "measure"
    /\ qaoa_circuit' = qaoa_circuit \o MeasureGates(n)
    /\ pc' = "run"
    /\ UNCHANGED <<Locals, cost_hamiltonian, layer, i, reads, Results>>

(* transpile(...); simulator.run(compiled_circuit).result() *)
Run ==
    /\ pc = "run"
    /\ runs' = runs + 1
    /\ pc' = "get_counts"
    /\ UNCHANGED <<Locals, cost_hamiltonian, qaoa_circuit, layer, i, reads,
                   counts, optimum, decoded>>

(* ------------------------- the simulator ------------------------------- *)
BitStrings(m) == [1..m -> {"0", "1"}]

(* the ways to split s shots over a sequence of outcomes, each seen at least once *)
RECURSIVE Compositions(_)
Compositions(s) ==
    IF s = 0 THEN {<< >>}
    ELSE UNION {{<<c>> \o r : r \in Compositions(s - c)} : c \in 1..s}

InjectiveSeqs(m, K) == {f \in [1..m -> K] : \A a, b \in 1..m : a # b => f[a] # f[b]}

(* result.get_counts(): a dict, here a sequence of (key, count) items in the
   dict's iteration order; which outcomes are seen, how often and in what
   order is the simulator's choice *)
Tables(m) ==
    UNION {{[k \in 1..Len(c) |-> [key |-> ks[k], count |-> c[k]]] :
               ks \in InjectiveSeqs(Len(c), BitStrings(m))} :
           c \in {d \in Compositions(Shots) : Len(d) <= Pow2(m)}}

GetCounts ==
    /\ pc = "get_counts"
    /\ counts' \in Tables(n)
    /\ pc' = "select"
    /\ UNCHANGED <<Locals, cost_hamiltonian, qaoa_circuit, layer, i, reads,
                   runs, optimum, decoded>>

(* ----------------------------- __main__ -------------------------------- *)
RECURSIVE MaxValue(_, _)
MaxValue(t, k) ==
    IF k = Len(t) THEN t[k].count
    ELSE LET m == MaxValue(t, k + 1) IN IF t[k].count > m THEN t[k].count ELSE m

(* mutant: the loop has no break, so the last key with the value wins *)
LastWith(t, v, k) ==
    LET last == CHOOSE j \in 1..Len(t) :
                   t[j].count = v /\ \A j2 \in (j + 1)..Len(t) : t[j2].count # v
    IN t[last].key

(* for i in result: if result[i] == value: optimum = i; break *)
RECURSIVE FirstWith(_, _, _)
FirstWith(t, v, k) ==
    IF t[k].count = v THEN t[k].key ELSE FirstWith(t, v, k + 1)

SelectOptimum(t) == FirstWith(t, MaxValue(t, 1), 1)

Select ==
    /\ pc = "select"
    /\ optimum' = SelectOptimum(counts)
    /\ pc' = "decode"
    /\ UNCHANGED <<Locals, cost_hamiltonian, qaoa_circuit, layer, i, reads,
                   runs, counts, decoded>>

(* ------------------------------ decoding ------------------------------- *)
(* mutant: '1' is given the timing of '2' *)
signal_timings_map_shifted == [c \in {"0", "1", "2"} |->
                                  CASE c = "0" -> Timing0 [] OTHER -> Timing2]

signal_timings_map == [c \in {"0", "1", "2"} |->
                          CASE c = "0" -> Timing0 [] c = "1" -> Timing1 [] OTHER -> Timing2]

(* mutant: an unknown character is skipped instead of raising *)
RECURSIVE DecodeSignalsLoop_skip(_, _, _)
DecodeSignalsLoop_skip(s, k, acc) ==
    IF k > Len(s) THEN [raised |-> FALSE, value |-> acc]
    ELSE DecodeSignalsLoop_skip(s, k + 1,
                                IF s[k] \in {"0", "1", "2"}
                                THEN Append(acc, signal_timings_map[s[k]])
                                ELSE acc)

RECURSIVE DecodeSignalsLoop(_, _, _)
DecodeSignalsLoop(s, k, acc) ==
    IF k > Len(s) THEN [raised |-> FALSE, value |-> acc]
    ELSE IF s[k] \in DOMAIN signal_timings_map
         THEN DecodeSignalsLoop(s, k + 1, Append(acc, signal_timings_map[s[k]]))
         ELSE [raised |-> TRUE, value |-> << >>]

decode_signals(binary_string) == DecodeSignalsLoop(binary_string, 1, << >>)

(* mutant: positions are counted from 1 *)
RECURSIVE DecodePathLoop_one_based(_, _, _)
DecodePathLoop_one_based(s, k, path) ==
    IF k > Len(s) THEN path
    ELSE DecodePathLoop_one_based(s, k + 1, IF s[k] = "1" THEN Append(path, k) ELSE path)

RECURSIVE DecodePathLoop(_, _, _)
DecodePathLoop(s, k, path) ==
    IF k > Len(s) THEN path
    ELSE DecodePathLoop(s, k + 1, IF s[k] = "1" THEN Append(path, k - 1) ELSE path)

decode_path(binary_string) == DecodePathLoop(binary_string, 1, << >>)

DecodeSignals ==
    /\ pc = "decode"
    /\ script = "signal"
    /\ LET r == decode_signals(optimum)
       IN IF r.raised
          THEN pc' = "ValueError" /\ decoded' = decoded
          ELSE pc' = "done" /\ decoded' = r.value
    /\ UNCHANGED <<Locals, cost_hamiltonian, qaoa_circuit, layer, i, reads,
                   runs, counts, optimum>>

DecodePath ==
    /\ pc = "decode"
    /\ script = "path"
    /\ decoded' = decode_path(optimum)
    /\ pc' = "done"
    /\ UNCHANGED <<Locals, cost_hamiltonian, qaoa_circuit, layer, i, reads,
                   runs, counts, optimum>>

(* direct calls of the two decoders on an arbitrary string *)
DecodeChars == {"0", "1", "2", "3"}

InitDecode ==
    /\ script \in {"signal", "path"}
    /\ pc = "decode"
    /\ optimum \in UNION {[1..m -> DecodeChars] : m \in 0..MaxLen}
    /\ traffic_flows = << >>
    /\ signal_timings = << >>
    /\ emergency_flags = << >>
    /\ start = start_node
    /\ end = end_node
    /\ p = 1
    /\ cost_hamiltonian = << >>
    /\ qaoa_circuit = << >>
    /\ layer = 0
    /\ i = 0
    /\ reads = {}
    /\ runs = 0
    /\ counts = << >>
    /\ decoded = << >>

(* --------------------------- specifications ---------------------------- *)
NextCost ==
    \/ CreateCost
    \/ CreatePathCost

NextCircuit ==
    \/ CreateCost
    \/ CreatePathCost
    \/ Hadamard
    \/ Rz
    \/ Rx
    \/ MeasureAll
    \/ Run

Next ==
    \/ CreateCost
    \/ CreatePathCost
    \/ Hadamard
    \/ Rz
    \/ Rx
    \/ MeasureAll
    \/ Run
    \/ GetCounts
    \/ Select
    \/ DecodeSignals
    \/ DecodePath

NextDecode ==
    \/ DecodeSignals
    \/ DecodePath

SpecCost == InitCost /\ [][NextCost]_vars

SpecCircuit == InitCircuit /\ [][NextCircuit]_vars

Spec == Init /\ [][Next]_vars

SpecDecode == InitDecode /\ [][NextDecode]_vars

(* ------------------------------ claims --------------------------------- *)
Built == pc # "create"

Size == Pow2(n)

(* C1: every diagonal entry [k][k], k < n, of the matrix returned by
   create_cost_hamiltonian is signal_timings[k] * traffic_flows[k], plus 100
   exactly when emergency_flags[k] is set. *)
C1_Diagonal ==
    (script = "signal" /\ Built) =>
        \A k \in 0..(n - 1) :
            cost_hamiltonian[k][k] =
                <<signal_timings[k] * traffic_flows[k]
                    + (IF emergency_flags[k] THEN 100 ELSE 0), 1>>

C1_Witness ==
    /\ script = "signal"
    /\ Built
    /\ \E k, k2 \in 0..(n - 1) :
          /\ emergency_flags[k] /\ traffic_flows[k] > 0
          /\ ~emergency_flags[k2] /\ traffic_flows[k2] > 0
          /\ signal_timings[k2] > 1

IsSignalSample ==
    /\ script = "signal"
    /\ n = 3
    /\ traffic_flows[0] = 50 /\ traffic_flows[1] = 40 /\ traffic_flows[2] = 10
    /\ signal_timings[0] = 30 /\ signal_timings[1] = 60 /\ signal_timings[2] = 20
    /\ ~emergency_flags[0] /\ emergency_flags[1] /\ ~emergency_flags[2]

Diagonal == [k \in 1..n |-> cost_hamiltonian[k - 1][k - 1]]

(* C2 as stated: on the sample data of the signal solver the cost diagonal
   is [1500, 2500+100, 200]. *)
C2_Original ==
    (IsSignalSample /\ Built) => Diagonal = <<(<<1500, 1>>), (<<2600, 1>>), (<<200, 1>>)>>

(* C2 amended: on the sample data of the signal solver the cost diagonal is
   [1500, 2400+100, 200], that is [1500, 2500, 200]. *)
C2_Amended ==
    (IsSignalSample /\ Built) => Diagonal = <<(<<1500, 1>>), (<<2500, 1>>), (<<200, 1>>)>>

C2_Witness == IsSignalSample /\ pc = "done"

ValidChars == {"0", "1", "2"}

Expected(c) == CASE c = "0" -> 20 [] c = "1" -> 30 [] c = "2" -> 60

(* C3: decode_signals returns, for a string over {'0','1','2'}, the list of
   the same length whose k-th element is 20, 30 or 60 according to the k-th
   character; for a string with any other character it raises and returns no
   list, not even a partial one. *)
C3_DecodeSignals ==
    (script = "signal" /\ pc \in {"done", "ValueError"}) =>
        IF \A k \in 1..Len(optimum) : optimum[k] \in ValidChars
        THEN /\ pc = "done"
             /\ Len(decoded) = Len(optimum)
             /\ \A k \in 1..Len(optimum) : decoded[k] = Expected(optimum[k])
        ELSE /\ pc = "ValueError"
             /\ decoded = << >>

C3_Witness ==
    /\ script = "signal"
    /\ pc = "done"
    /\ optimum = <<"0", "1", "2">>
    /\ decoded = <<20, 30, 60>>

C3_WitnessError ==
    /\ script = "signal"
    /\ pc = "ValueError"
    /\ optimum = <<"0", "3", "1">>

(* C4: decode_path returns exactly the 0-based positions of the '1'
   characters, in strictly increasing order and without duplicates; it is
   empty when the string has no '1'. *)
C4_DecodePath ==
    (script = "path" /\ pc = "done") =>
        /\ {decoded[k] : k \in 1..Len(decoded)} =
               {k - 1 : k \in {j \in 1..Len(optimum) : optimum[j] = "1"}}
        /\ \A a, b \in 1..Len(decoded) : a < b => decoded[a] < decoded[b]

C4_Witness ==
    /\ script = "path"
    /\ pc = "done"
    /\ optimum = <<"1", "0", "1">>
    /\ decoded = <<0, 2>>

C4_WitnessEmpty ==
    /\ script = "path"
    /\ pc = "done"
    /\ optimum = <<"0", "0", "0">>
    /\ decoded = << >>

Selected == pc \in {"decode", "done", "ValueError"}

(* C5: the selected bit-string has the maximum count of the table, and every
   key before it in the table's iteration order has a strictly smaller
   count. *)
C5_FirstMaximum ==
    Selected =>
        \E k \in 1..Len(counts) :
            /\ counts[k].key = optimum
            /\ \A j \in 1..Len(counts) : counts[j].count <= counts[k].count
            /\ \A j \in 1..(k - 1) : counts[j].count < counts[k].count

(* a tie for the maximum, resolved in favour of the first key *)
C5_Witness ==
    /\ Selected
    /\ Len(counts) >= 2
    /\ optimum = counts[1].key
    /\ \E j \in 2..Len(counts) : counts[j].count = counts[1].count

(* the maximum is not the first key *)
C5_WitnessLater ==
    /\ Selected
    /\ Len(counts) >= 2
    /\ optimum = counts[2].key
    /\ counts[1].count < counts[2].count

(* C6 as stated: every diagonal entry [k][k], k < n, of the matrix returned
   by create_path_cost_hamiltonian is signal_timings[k] * traffic_flows[k]. *)
C6_Original ==
    (script = "path" /\ Built) =>
        \A k \in 0..(n - 1) :
            cost_hamiltonian[k][k] = <<signal_timings[k] * traffic_flows[k], 1>>

(* C6 amended: the diagonal entry [k][k] of the matrix returned by
   create_path_cost_hamiltonian is signal_timings[k] * traffic_flows[k] for
   k = start and zero for every other k < n. *)
C6_Amended ==
    (script = "path" /\ Built) =>
        \A k \in 0..(n - 1) :
            cost_hamiltonian[k][k] =
                <<(IF k = start THEN signal_timings[k] * traffic_flows[k] ELSE 0), 1>>

C6_Witness ==
    /\ script = "path"
    /\ Built
    /\ start \in 0..(n - 1)
    /\ traffic_flows[start] > 0
    /\ \E k \in 0..(n - 1) : k # start /\ traffic_flows[k] > 0

(* C7: in the 2^n x 2^n matrix of the signal solver every entry other than
   [k][k], k < n, is zero; in the matrix of the path solver every entry other
   than [k][k], k < n, and [start][j], j < n, is zero. *)
C7_Frame ==
    Built =>
        /\ DOMAIN cost_hamiltonian = 0..(Size - 1)
        /\ \A r \in 0..(Size - 1) :
              /\ DOMAIN cost_hamiltonian[r] = 0..(Size - 1)
              /\ \A c \in 0..(Size - 1) :
                    LET diag == r = c /\ r < n
                        startRow == script = "path" /\ r = start /\ c < n
                    IN ~(diag \/ startRow) => cost_hamiltonian[r][c] = <<0, 1>>

C7_Witness ==
    /\ script = "path"
    /\ Built
    /\ start \in 0..(n - 1)
    /\ \E j \in 0..(n - 1) : j # start /\ cost_hamiltonian[start][j] # <<0, 1>>
    /\ cost_hamiltonian[start][start] # <<0, 1>>

Rotations == {k \in 1..Len(qaoa_circuit) : qaoa_circuit[k].gate \in {"rz", "rx"}}

(* the operation the source's loops emit at position k of the circuit *)
IsExpectedOp(op, k) ==
    IF k <= n
    THEN op.gate = "h" /\ op.qubit = k - 1
    ELSE IF k <= n + 2 * p * n
         THEN LET m == k - n - 1
                  q == (m \div 2) % n
              IN IF m % 2 = 0
                 THEN /\ op.gate = "rz"
                      /\ op.qubit = q
                      /\ op.angle = cost_hamiltonian[q][q]
                 ELSE /\ op.gate = "rx"
                      /\ op.qubit = q
                      /\ op.angle = "pi/2"
         ELSE op.gate = "measure" /\ op.qubit = k - n - 2 * p * n - 1

(* C8: the circuit is, in this order, a Hadamard on each of the n qubits, p
   layers of (rz with angle cost[q][q], then rx with angle pi/2) for each
   qubit q in index order, and one measurement of every qubit; the simulator
   runs once and only on the complete circuit; 2*p*n rotations are emitted
   and only diagonal cost entries are read. *)
C8_CircuitOrder ==
    /\ Len(qaoa_circuit) <= 2 * n + 2 * p * n
    /\ \A k \in 1..Len(qaoa_circuit) : IsExpectedOp(qaoa_circuit[k], k)
    /\ \A e \in reads : e[1] = e[2]
    /\ runs \in {0, 1}
    /\ (runs = 1) <=> (pc \in {"get_counts", "select", "decode", "done", "ValueError"})
    /\ runs = 1 =>
          /\ Len(qaoa_circuit) = 2 * n + 2 * p * n
          /\ Cardinality(Rotations) = 2 * p * n

C8_Witness ==
    /\ runs = 1
    /\ p = 2
    /\ n >= 2
    /\ \E k \in Rotations :
          qaoa_circuit[k].gate = "rz" /\ qaoa_circuit[k].angle # <<0, 1>>

(* C9: the matrix of create_path_cost_hamiltonian, and with it every angle
   of the circuit built from it, is the same for every value of end and of
   emergency_flags. *)
C9_IgnoresEndAndFlags ==
    (script = "path" /\ pc \in {"h", "get_counts"}) =>
        \A e \in 0..(n - 1) : \A f \in Vectors(n, BOOLEAN) :
            LET other == create_path_cost_hamiltonian(start, e, traffic_flows,
                                                      signal_timings, f)
            IN /\ other = cost_hamiltonian
               /\ \A k \in Rotations :
                     qaoa_circuit[k].gate = "rz" =>
                         qaoa_circuit[k].angle
                             = other[qaoa_circuit[k].qubit][qaoa_circuit[k].qubit]

C9_Witness ==
    /\ script = "path"
    /\ pc = "get_counts"
    /\ n >= 2
    /\ start \in 0..(n - 1)
    /\ emergency_flags[start]
    /\ \E k \in Rotations :
          qaoa_circuit[k].gate = "rz" /\ qaoa_circuit[k].angle # <<0, 1>>

(* C10: in a run of the signal solver whose frequency table has keys of
   length n over {'0','1'}, decode_signals never raises and the printed list
   has length n and only the values 20 and 30. *)
C10_OnlyTwoTimings ==
    (script = "signal"
       /\ \A k \in 1..Len(counts) : counts[k].key \in BitStrings(n)) =>
        /\ pc # "ValueError"
        /\ pc = "done" =>
              /\ Len(decoded) = n
              /\ \A k \in 1..n : decoded[k] \in {20, 30}

C10_Witness ==
    /\ script = "signal"
    /\ pc = "done"
    /\ n = 3
    /\ \E a, b \in 1..n : decoded[a] = 20 /\ decoded[b] = 30

====
